---- MODULE Spec2Model ----
(***************************************************************************)
(* A model of the lanzaboote "thin" boot stub, rust/uefi/stub/src/thin.rs: *)
(* boot_linux, check_hash, extract_hash and EmbeddedConfiguration::new.    *)
(*                                                                         *)
(* One behaviour is one boot attempt.  The stub's image, the firmware, the *)
(* boot volume and the boot server are the environment: they are chosen in *)
(* Init and never change.  Each statement of boot_linux that talks to the  *)
(* firmware is one action; pc is the position inside boot_linux.           *)
(*                                                                         *)
(* All byte strings (section contents, file names, file contents, digests, *)
(* addresses) are sequences of numbers.                                    *)
(***************************************************************************)
EXTENDS Integers, Sequences, FiniteSets, TLC

\* Longest file content (in bytes) on the boot volume and on the boot server.
MaxLen == 2

\* Width of a SHA-256 digest in bytes: the [u8; 32] of extract_hash.
HashLen == 32

Byte == {0, 1}

RECURSIVE SeqsOfLen(_)
SeqsOfLen(n) ==
    IF n = 0 THEN {<<>>}
    ELSE {Append(s, b) : s \in SeqsOfLen(n - 1), b \in Byte}

\* Every file content the model considers.
Data == UNION {SeqsOfLen(n) : n \in 0..MaxLen}

\* n zero bytes: Vec::resize(n, 0).
Zeros(n) == [i \in 1..n |-> 0]

(***************************************************************************)
(* Sha256::digest.  SHA-256 itself is not computed; the stand-in is a      *)
(* deterministic fold over all bytes of the data, of fixed width HashLen,  *)
(* that depends on every byte and on the length and has no collision on    *)
(* Data (as no collision of SHA-256 is known).                             *)
(***************************************************************************)
RECURSIVE Fold(_)
Fold(data) ==
    IF data = <<>> THEN 0
    ELSE (3 * Fold(SubSeq(data, 1, Len(data) - 1)) + data[Len(data)] + 1) % 65536

Sha256(data) ==
    [i \in 1..HashLen |->
        IF i = 1 THEN Fold(data) % 256
        ELSE IF i = 2 THEN (Fold(data) \div 256) % 256
        ELSE 0]

(***************************************************************************)
(* uefi::Result: Ok(value) or Err(status).                                 *)
(***************************************************************************)
Ok(v) == [ok |-> TRUE, val |-> v, status |-> "SUCCESS"]
Err(s) == [ok |-> FALSE, val |-> <<>>, status |-> s]

(***************************************************************************)
(* The stub's own image: a function from the names of the sections that    *)
(* are present to their contents.                                          *)
(***************************************************************************)
SectionNames == {".kernelp", ".kernelh", ".initrdp", ".initrdh", ".cmdline"}
HashSections == {".kernelh", ".initrdh"}

\* pe_section: the content of a named section, if the image has it.
pe_section(pe_data, section) ==
    IF section \in DOMAIN pe_data THEN Ok(pe_data[section])
    ELSE Err("NOT_FOUND")

\* extract_string: the text of a named section; a missing section is an error.
extract_string(pe_data, section) ==
    IF pe_section(pe_data, section).ok
    THEN Ok(pe_section(pe_data, section).val)
    ELSE Err("INVALID_PARAMETER")

\* A mutant of extract_hash: the length of the section is not checked.
extract_hash_AnyLength(pe_data, section) ==
    IF ~pe_section(pe_data, section).ok THEN Err("INVALID_PARAMETER")
    ELSE Ok(pe_section(pe_data, section).val)

\* extract_hash: the section must exist and be exactly 32 bytes long.
extract_hash(pe_data, section) ==
    IF ~pe_section(pe_data, section).ok THEN Err("INVALID_PARAMETER")
    ELSE IF Len(pe_section(pe_data, section).val) # HashLen
         THEN Err("INVALID_PARAMETER")
         ELSE Ok(pe_section(pe_data, section).val)

\* The configuration before EmbeddedConfiguration::new has run.
NoConfig ==
    [kernel_filename |-> <<>>, kernel_hash |-> <<>>,
     initrd_filename |-> <<>>, initrd_hash |-> <<>>, cmdline |-> <<>>]

\* A mutant of EmbeddedConfiguration::new: a missing or malformed section
\* leaves its field empty instead of failing.
EmbeddedConfigurationNew_Partial(file_data) ==
    Ok([kernel_filename |-> extract_string(file_data, ".kernelp").val,
        kernel_hash     |-> extract_hash(file_data, ".kernelh").val,
        initrd_filename |-> extract_string(file_data, ".initrdp").val,
        initrd_hash     |-> extract_hash(file_data, ".initrdh").val,
        cmdline         |-> extract_string(file_data, ".cmdline").val])

\* EmbeddedConfiguration::new: the five fields in order, each `?` returning
\* the first error.
EmbeddedConfigurationNew(file_data) ==
    LET kp == extract_string(file_data, ".kernelp")
        kh == extract_hash(file_data, ".kernelh")
        ip == extract_string(file_data, ".initrdp")
        ih == extract_hash(file_data, ".initrdh")
        cl == extract_string(file_data, ".cmdline")
    IN  IF ~kp.ok THEN Err(kp.status)
        ELSE IF ~kh.ok THEN Err(kh.status)
        ELSE IF ~ip.ok THEN Err(ip.status)
        ELSE IF ~ih.ok THEN Err(ih.status)
        ELSE IF ~cl.ok THEN Err(cl.status)
        ELSE Ok([kernel_filename |-> kp.val, kernel_hash |-> kh.val,
                 initrd_filename |-> ip.val, initrd_hash |-> ih.val,
                 cmdline |-> cl.val])

(***************************************************************************)
(* check_hash: the value returned and the diagnostics logged.              *)
(***************************************************************************)
LogLine(level, name) == [level |-> level, name |-> name]

\* A mutant of check_hash: a mismatch is only ever a warning.
check_hash_NeverFatal(data, expected_hash, name, secure_boot) ==
    IF Sha256(data) # expected_hash
    THEN [ret |-> "SUCCESS", logged |-> <<LogLine("warn", name)>>]
    ELSE [ret |-> "SUCCESS", logged |-> <<>>]

\* A mutant of check_hash: a mismatch is fatal whatever Secure Boot says.
check_hash_AlwaysFatal(data, expected_hash, name, secure_boot) ==
    IF Sha256(data) # expected_hash
    THEN [ret |-> "SECURITY_VIOLATION", logged |-> <<LogLine("error", name)>>]
    ELSE [ret |-> "SUCCESS", logged |-> <<>>]

check_hash(data, expected_hash, name, secure_boot) ==
    LET hash_correct == Sha256(data) = expected_hash
    IN  IF ~hash_correct
        THEN IF secure_boot
             THEN [ret |-> "SECURITY_VIOLATION",
                   logged |-> <<LogLine("error", name)>>]
             ELSE [ret |-> "SUCCESS", logged |-> <<LogLine("warn", name)>>]
        ELSE [ret |-> "SUCCESS", logged |-> <<>>]

(***************************************************************************)
(* The environment of one boot attempt.                                    *)
(***************************************************************************)
\* File names and the command line, as character codes.
KernelName1 == <<107, 49>>
KernelName2 == <<107, 50>>
InitrdName  == <<105, 49>>
CmdlineText == <<99>>

\* cstr8!("./bzImage") and cstr8!("./initrd").
BzImageFilename   == <<46, 47, 98, 122, 73, 109, 97, 103, 101>>
InitrdNetFilename == <<46, 47, 105, 110, 105, 116, 114, 100>>

\* The artifacts the installer hashed when it built the images.
InstallerData == {<<1>>, <<1, 0>>} \cap Data

EmptyFn == [x \in {} |-> <<>>]

ValidImages ==
    {[s \in SectionNames |->
        CASE s = ".kernelp" -> kn
          [] s = ".kernelh" -> Sha256(kd)
          [] s = ".initrdp" -> InitrdName
          [] s = ".initrdh" -> Sha256(id)
          [] s = ".cmdline" -> CmdlineText] :
     kn \in {KernelName1, KernelName2}, kd \in InstallerData, id \in InstallerData}

\* img without section s.
WithoutSection(img, s) == [t \in DOMAIN img \ {s} |-> img[t]]

\* img with section s replaced by content d.
WithSection(img, s, d) == [t \in DOMAIN img |-> IF t = s THEN d ELSE img[t]]

\* A hash section of the wrong length: one byte short, one byte long, empty.
WrongLength(h) == {SubSeq(h, 1, Len(h) - 1), Append(h, 0), <<>>}

\* Images with one fault: one section missing, or one hash section of the
\* wrong length.
FaultyImages ==
    {WithoutSection(img, s) : img \in ValidImages, s \in SectionNames}
    \cup UNION {{WithSection(img, s, d) : d \in WrongLength(img[s])} :
                img \in ValidImages, s \in HashSections}

\* Boot volumes with contents from `contents`: at most one kernel file, under
\* the first kernel name (under the second, only what the installer hashed),
\* and at most one initrd file.
Disks(contents) ==
    {kf @@ if :
     kf \in {EmptyFn} \cup {KernelName1 :> d : d \in contents}
            \cup {KernelName2 :> d : d \in InstallerData},
     if \in {EmptyFn} \cup {InitrdName :> d : d \in contents}}

\* Boot servers with contents from `contents`.
Servers(contents) ==
    {kf @@ if :
     kf \in {EmptyFn} \cup {BzImageFilename :> d : d \in contents},
     if \in {EmptyFn} \cup {InitrdNetFilename :> d : d \in contents}}

\* One file that has an embedded digest and one that has not.
ProbeData == {<<0>>, <<1>>}

DefaultDisk ==
    (KernelName1 :> <<1>>) @@ (KernelName2 :> <<1>>) @@ (InitrdName :> <<1>>)
DefaultServer == (BzImageFilename :> <<1>>) @@ (InitrdNetFilename :> <<1>>)

ServerAddr1 == <<10, 0, 0, 1>>
ServerAddr2 == <<10, 0, 0, 2>>
NoAddr      == <<0, 0, 0, 0>>

\* BaseCode::mode(): dhcp_ack_received and the si_addr of the stored packet.
DhcpModes ==
    {[dhcp_ack_received |-> FALSE, bootp_si_addr |-> NoAddr]}
    \cup {[dhcp_ack_received |-> TRUE, bootp_si_addr |-> a] :
          a \in {ServerAddr1, ServerAddr2}}

SecureBootStates == {"enabled", "disabled", "unreadable"}

(***************************************************************************)
(* The firmware's view of the device the image was loaded from.            *)
(*   fs_locatable: get_image_file_system finds a SimpleFileSystem handle   *)
(*                 for the image's device path;                            *)
(*   fs_on_device: the handle test_protocol is asked about supports        *)
(*                 SimpleFileSystem.                                       *)
(* A handle that supports the protocol is always found, so fs_on_device    *)
(* implies fs_locatable.  A network-booted image has neither.              *)
(***************************************************************************)
Firmware(sb, loc, dev, dhcp) ==
    [secure_boot |-> sb, fs_locatable |-> loc, fs_on_device |-> dev, mode |-> dhcp]

\* The worlds a well-formed image is booted in, for Secure Boot states sbs
\* and file contents from `contents`.  Where the tested handle has a
\* filesystem the disk varies; where it has none and a file system is still
\* found, the server varies behind one address, and the DHCP state varies in
\* front of one server; a network-booted image (no file system to be found)
\* meets every DHCP state and one server.
WorldsWith(sbs, contents) ==
    {[fw |-> Firmware(sb, TRUE, TRUE, dhcp), disk |-> d, server |-> DefaultServer] :
     sb \in sbs, d \in Disks(contents),
     dhcp \in {m \in DhcpModes : m.bootp_si_addr = ServerAddr1}}
    \cup
    {[fw |-> Firmware(sb, TRUE, FALSE, dhcp), disk |-> DefaultDisk, server |-> s] :
     sb \in sbs, s \in Servers(contents),
     dhcp \in {m \in DhcpModes : m.bootp_si_addr = ServerAddr1}}
    \cup
    {[fw |-> Firmware(sb, loc, FALSE, dhcp),
      disk |-> IF loc THEN DefaultDisk ELSE EmptyFn,
      server |-> DefaultServer] :
     sb \in sbs, loc \in BOOLEAN, dhcp \in DhcpModes}

\* Every file content where Secure Boot is readable; where it is not, the
\* attempt behaves as with Secure Boot disabled and two contents are kept.
Worlds ==
    WorldsWith({"enabled", "disabled"}, Data)
    \cup WorldsWith({"unreadable"}, ProbeData)

\* The worlds a faulty image is booted in: every firmware state, one disk
\* and one server.
FaultWorlds ==
    {[fw |-> Firmware(sb, v[1], v[2], dhcp),
      disk |-> IF v[1] THEN DefaultDisk ELSE EmptyFn,
      server |-> DefaultServer] :
     sb \in SecureBootStates,
     v \in {<<TRUE, TRUE>>, <<TRUE, FALSE>>, <<FALSE, FALSE>>},
     dhcp \in DhcpModes}

(***************************************************************************)
(* State.                                                                  *)
(***************************************************************************)
VARIABLES
    image,                \* the stub's own image (environment)
    fw,                   \* the firmware's state (environment)
    disk,                 \* the boot volume's files (environment)
    server,               \* the boot server's files (environment)
    pc,                   \* the position in boot_linux
    outcome,              \* "running", "handoff", "panic" or "error"
    status,               \* the panic message or the status returned
    config,               \* the EmbeddedConfiguration
    secure_boot_enabled,
    fs_handles,           \* exclusive opens of SimpleFileSystem now held
    server_ip,
    kfile_size, ifile_size,
    kernel_data, initrd_data,
    klen, ilen,
    cmdline,
    log,                  \* error! and warn! lines, in order
    ops,                  \* every firmware request issued, in order
    checks,               \* every call of check_hash: inputs and results
    faulted,              \* some firmware call failed for a transient reason
    handoff               \* the arguments passed to boot_linux_unchecked

env == <<image, fw, disk, server>>
prog == <<pc, outcome, status, config, secure_boot_enabled, fs_handles,
          server_ip, kfile_size, ifile_size, kernel_data, initrd_data,
          klen, ilen, cmdline, log, ops, checks, faulted, handoff>>
vars == <<env, prog>>

Op(op, name, addr, ok, ret) ==
    [op |-> op, name |-> name, addr |-> addr, ok |-> ok, ret |-> ret]

NoHandoff == [kernel |-> <<>>, cmdline |-> <<>>, initrd |-> <<>>, called |-> FALSE]

Init ==
    /\ \/ /\ image \in ValidImages
          /\ \E w \in Worlds : fw = w.fw /\ disk = w.disk /\ server = w.server
       \/ /\ image \in FaultyImages
          /\ \E w \in FaultWorlds : fw = w.fw /\ disk = w.disk /\ server = w.server
    /\ pc = "uefi_services_init"
    /\ outcome = "running"
    /\ status = "SUCCESS"
    /\ config = NoConfig
    /\ secure_boot_enabled = FALSE
    /\ fs_handles = 0
    /\ server_ip = NoAddr
    /\ kfile_size = 0
    /\ ifile_size = 0
    /\ kernel_data = <<>>
    /\ initrd_data = <<>>
    /\ klen = 0
    /\ ilen = 0
    /\ cmdline = <<>>
    /\ log = <<>>
    /\ ops = <<>>
    /\ checks = <<>>
    /\ faulted = FALSE
    /\ handoff = NoHandoff

(***************************************************************************)
(* Firmware and library calls whose code is outside thin.rs.               *)
(***************************************************************************)
\* get_secure_boot_status: true only when the firmware reports Secure Boot
\* enabled; an unreadable state counts as not enabled.
get_secure_boot_status(firmware) == firmware.secure_boot = "enabled"

\* The text the loader passes, which firmware policy admits only when Secure
\* Boot is off.
LoaderCmdline == <<108>>

\* get_cmdline: the embedded command line, combined with the loader's text
\* when Secure Boot is not enabled.
get_cmdline(embedded, secure_boot) ==
    IF secure_boot THEN embedded ELSE embedded \o LoaderCmdline

\* open_protocol_exclusive on SimpleFileSystem while `held` exclusive opens
\* of it are outstanding.  UEFI's OpenProtocol answers ACCESS_DENIED to an
\* EXCLUSIVE open of a protocol that is already open exclusively; the outcome
\* in which the firmware grants it anyway is kept as well, so that what
\* follows is covered whatever the firmware answers.
ExclusiveOpenGranted(held) == IF held = 0 THEN {TRUE} ELSE {FALSE, TRUE}

\* The files served at address addr.
TftpFiles(addr) ==
    IF fw.mode.dhcp_ack_received /\ addr = fw.mode.bootp_si_addr
    THEN server ELSE EmptyFn

\* tftp_get_file_size: the size of the named file, or an error.
TftpSizeResults(addr, name) ==
    {Err("TFTP_ERROR")}
    \cup (IF name \in DOMAIN TftpFiles(addr)
          THEN {Ok(Len(TftpFiles(addr)[name]))} ELSE {})

\* tftp_read_file into a buffer: the number of bytes received and the
\* buffer afterwards (the received bytes, then what the buffer held), or an
\* error.  A file longer than the buffer is an error.  The code accepts any
\* length above zero (lines 156-157), so every length up to the file's is
\* kept as an answer of the firmware.
TftpReadResults(addr, name, buffer) ==
    {Err("TFTP_ERROR")}
    \cup (IF name \in DOMAIN TftpFiles(addr)
             /\ Len(TftpFiles(addr)[name]) <= Len(buffer)
          THEN {Ok([len |-> n,
                    buffer |-> SubSeq(TftpFiles(addr)[name], 1, n)
                               \o SubSeq(buffer, n + 1, Len(buffer))]) :
                n \in 0..Len(TftpFiles(addr)[name])}
          ELSE {})

(***************************************************************************)
(* boot_linux, one action per statement.                                   *)
(***************************************************************************)
Goto(l) == pc' = l /\ UNCHANGED <<outcome, status>>

\* A panic: .unwrap(), .expect(msg) or assert! failing.
Panic(msg) == pc' = "done" /\ outcome' = "panic" /\ status' = msg

\* A `?` on an error: boot_linux returns it.
Return(st) == pc' = "done" /\ outcome' = "error" /\ status' = st

Issue(op) == ops' = Append(ops, op)

\* Line 81: uefi_services::init(&mut system_table).unwrap()
UefiServicesInit ==
    /\ pc = "uefi_services_init"
    /\ \E ok \in BOOLEAN :
        /\ IF ok THEN Goto("config") ELSE Panic("uefi_services::init")
        /\ faulted' = (faulted \/ ~ok)
    /\ UNCHANGED <<env, config, secure_boot_enabled, fs_handles, server_ip,
                   kfile_size, ifile_size, kernel_data, initrd_data, klen, ilen,
                   cmdline, log, ops, checks, handoff>>

\* Lines 87-94: EmbeddedConfiguration::new(booted_image_file(..).unwrap()
\* .as_slice()).expect(..)
ExtractConfiguration ==
    /\ pc = "config"
    /\ \E image_ok \in BOOLEAN :
        /\ Issue(Op("booted_image_file", <<>>, NoAddr, image_ok, 0))
        /\ faulted' = (faulted \/ ~image_ok)
        /\ IF ~image_ok
           THEN Panic("booted_image_file") /\ UNCHANGED config
           ELSE IF EmbeddedConfigurationNew(image).ok
                THEN /\ config' = EmbeddedConfigurationNew(image).val
                     /\ Goto("secure_boot")
                ELSE /\ Panic("Failed to extract configuration from binary")
                     /\ UNCHANGED config
    /\ UNCHANGED <<env, secure_boot_enabled, fs_handles, server_ip,
                   kfile_size, ifile_size, kernel_data, initrd_data, klen, ilen,
                   cmdline, log, checks, handoff>>

\* A mutant of line 96: a Secure Boot state that cannot be read is fatal.
GetSecureBootStatus_Fatal ==
    /\ pc = "secure_boot"
    /\ secure_boot_enabled' = get_secure_boot_status(fw)
    /\ Issue(Op("get_secure_boot_status", <<>>, NoAddr,
                fw.secure_boot # "unreadable",
                IF get_secure_boot_status(fw) THEN 1 ELSE 0))
    /\ IF fw.secure_boot = "unreadable"
       THEN Panic("get_secure_boot_status")
       ELSE Goto("get_fs")
    /\ UNCHANGED <<env, config, fs_handles, server_ip,
                   kfile_size, ifile_size, kernel_data, initrd_data, klen, ilen,
                   cmdline, log, checks, faulted, handoff>>

\* Line 96: let secure_boot_enabled = get_secure_boot_status(..)
GetSecureBootStatus ==
    /\ pc = "secure_boot"
    /\ secure_boot_enabled' = get_secure_boot_status(fw)
    /\ Issue(Op("get_secure_boot_status", <<>>, NoAddr,
                fw.secure_boot # "unreadable",
                IF get_secure_boot_status(fw) THEN 1 ELSE 0))
    /\ Goto("get_fs")
    /\ UNCHANGED <<env, config, fs_handles, server_ip,
                   kfile_size, ifile_size, kernel_data, initrd_data, klen, ilen,
                   cmdline, log, checks, faulted, handoff>>

\* Lines 102-106: get_image_file_system(handle).expect(..), kept in
\* file_system until the block ends at line 159.
GetImageFileSystem ==
    /\ pc = "get_fs"
    /\ Issue(Op("get_image_file_system", <<>>, NoAddr, fw.fs_locatable, 0))
    /\ IF fw.fs_locatable
       THEN fs_handles' = fs_handles + 1 /\ Goto("test_protocol")
       ELSE UNCHANGED fs_handles /\ Panic("Failed to get file system handle")
    /\ UNCHANGED <<env, config, secure_boot_enabled, server_ip,
                   kfile_size, ifile_size, kernel_data, initrd_data, klen, ilen,
                   cmdline, log, checks, faulted, handoff>>

\* Line 108: if test_protocol::<SimpleFileSystem>(..).is_ok().  The source
\* does not define filesystem_protocol_params; the handle it names is the
\* one whose capability fs_on_device records.
TestProtocol ==
    /\ pc = "test_protocol"
    /\ Issue(Op("test_protocol", <<>>, NoAddr, fw.fs_on_device, 0))
    /\ IF fw.fs_on_device THEN Goto("local_get_fs") ELSE Goto("open_loaded_image")
    /\ UNCHANGED <<env, config, secure_boot_enabled, fs_handles, server_ip,
                   kfile_size, ifile_size, kernel_data, initrd_data, klen, ilen,
                   cmdline, log, checks, faulted, handoff>>

\* Lines 109-112: a second get_image_file_system(handle).expect(..), while
\* the handle of line 102 is still held.
LocalGetImageFileSystem ==
    /\ pc = "local_get_fs"
    /\ \E granted \in ExclusiveOpenGranted(fs_handles) :
        /\ Issue(Op("get_image_file_system", <<>>, NoAddr, granted, 0))
        /\ IF granted
           THEN fs_handles' = fs_handles + 1 /\ Goto("read_kernel")
           ELSE UNCHANGED fs_handles /\ Panic("Failed to get file system handle")
    /\ UNCHANGED <<env, config, secure_boot_enabled, server_ip,
                   kfile_size, ifile_size, kernel_data, initrd_data, klen, ilen,
                   cmdline, log, checks, faulted, handoff>>

\* A mutant of lines 114-116: a failed read of the kernel is tried again.
ReadKernel_Retry ==
    /\ pc = "read_kernel"
    /\ \E io_ok \in BOOLEAN :
        LET name == config.kernel_filename
            found == name \in DOMAIN disk
        IN  /\ Issue(Op("fs_read", name, NoAddr, io_ok /\ found, 0))
            /\ faulted' = (faulted \/ (found /\ ~io_ok))
            /\ IF io_ok /\ found
               THEN kernel_data' = disk[name] /\ Goto("read_initrd")
               ELSE UNCHANGED kernel_data /\ Goto("read_kernel")
    /\ UNCHANGED <<env, config, secure_boot_enabled, fs_handles, server_ip,
                   kfile_size, ifile_size, initrd_data, klen, ilen,
                   cmdline, log, checks, handoff>>

\* Lines 114-116: file_system.read(&*config.kernel_filename).expect(..)
ReadKernel ==
    /\ pc = "read_kernel"
    /\ \E io_ok \in BOOLEAN :
        LET name == config.kernel_filename
            found == name \in DOMAIN disk
        IN  /\ Issue(Op("fs_read", name, NoAddr, io_ok /\ found, 0))
            /\ faulted' = (faulted \/ (found /\ ~io_ok))
            /\ IF io_ok /\ found
               THEN kernel_data' = disk[name] /\ Goto("read_initrd")
               ELSE /\ UNCHANGED kernel_data
                    /\ Panic("Failed to read kernel file into memory")
    /\ UNCHANGED <<env, config, secure_boot_enabled, fs_handles, server_ip,
                   kfile_size, ifile_size, initrd_data, klen, ilen,
                   cmdline, log, checks, handoff>>

\* Lines 117-119: file_system.read(&*config.initrd_filename).expect(..);
\* lines 158-159: the block ends and both file system handles are dropped.
ReadInitrd ==
    /\ pc = "read_initrd"
    /\ \E io_ok \in BOOLEAN :
        LET name == config.initrd_filename
            found == name \in DOMAIN disk
        IN  /\ Issue(Op("fs_read", name, NoAddr, io_ok /\ found, 0))
            /\ faulted' = (faulted \/ (found /\ ~io_ok))
            /\ IF io_ok /\ found
               THEN /\ initrd_data' = disk[name]
                    /\ fs_handles' = 0
                    /\ Goto("get_cmdline")
               ELSE /\ UNCHANGED <<initrd_data, fs_handles>>
                    /\ Panic("Failed to read initrd file into memory")
    /\ UNCHANGED <<env, config, secure_boot_enabled, server_ip,
                   kfile_size, ifile_size, kernel_data, klen, ilen,
                   cmdline, log, checks, handoff>>

\* Lines 121-122: open_protocol_exclusive::<LoadedImage>(..).expect(..)
OpenLoadedImage ==
    /\ pc = "open_loaded_image"
    /\ \E ok \in BOOLEAN :
        /\ Issue(Op("open_loaded_image", <<>>, NoAddr, ok, 0))
        /\ faulted' = (faulted \/ ~ok)
        /\ IF ok THEN Goto("open_base_code")
           ELSE Panic("Failed to open the loaded image protocol")
    /\ UNCHANGED <<env, config, secure_boot_enabled, fs_handles, server_ip,
                   kfile_size, ifile_size, kernel_data, initrd_data, klen, ilen,
                   cmdline, log, checks, handoff>>

\* Line 124: open_protocol_exclusive::<BaseCode>(..).unwrap()
OpenBaseCode ==
    /\ pc = "open_base_code"
    /\ \E ok \in BOOLEAN :
        /\ Issue(Op("open_base_code", <<>>, NoAddr, ok, 0))
        /\ faulted' = (faulted \/ ~ok)
        /\ IF ok THEN Goto("dhcp_ack") ELSE Panic("open BaseCode")
    /\ UNCHANGED <<env, config, secure_boot_enabled, fs_handles, server_ip,
                   kfile_size, ifile_size, kernel_data, initrd_data, klen, ilen,
                   cmdline, log, checks, handoff>>

\* A mutant of lines 126-129: the assertion on dhcp_ack_received is missing.
DhcpAck_NoAssert ==
    /\ pc = "dhcp_ack"
    /\ server_ip' = fw.mode.bootp_si_addr
    /\ Goto("kernel_size")
    /\ UNCHANGED <<env, config, secure_boot_enabled, fs_handles,
                   kfile_size, ifile_size, kernel_data, initrd_data, klen, ilen,
                   cmdline, log, ops, checks, faulted, handoff>>

\* Lines 126-129: assert!(dhcp_ack_received); server_ip from bootp_si_addr.
DhcpAck ==
    /\ pc = "dhcp_ack"
    /\ IF fw.mode.dhcp_ack_received
       THEN server_ip' = fw.mode.bootp_si_addr /\ Goto("kernel_size")
       ELSE UNCHANGED server_ip /\ Panic("assertion failed: dhcp_ack_received")
    /\ UNCHANGED <<env, config, secure_boot_enabled, fs_handles,
                   kfile_size, ifile_size, kernel_data, initrd_data, klen, ilen,
                   cmdline, log, ops, checks, faulted, handoff>>

\* A mutant of lines 131, 134-136: the size query names the embedded
\* kernel_filename.
TftpGetKernelSize_EmbeddedName ==
    /\ pc = "kernel_size"
    /\ \E r \in TftpSizeResults(server_ip, config.kernel_filename) :
        /\ Issue(Op("tftp_get_file_size", config.kernel_filename, server_ip, r.ok,
                    IF r.ok THEN r.val ELSE 0))
        /\ faulted' = (faulted \/ (~r.ok /\ config.kernel_filename \in DOMAIN TftpFiles(server_ip)))
        /\ IF r.ok
           THEN kfile_size' = r.val /\ Goto("initrd_size")
           ELSE UNCHANGED kfile_size /\ Panic("failed to query file size")
    /\ UNCHANGED <<env, config, secure_boot_enabled, fs_handles, server_ip,
                   ifile_size, kernel_data, initrd_data, klen, ilen,
                   cmdline, log, checks, handoff>>

\* Lines 131, 134-136: tftp_get_file_size(&server_ip, "./bzImage").expect(..)
TftpGetKernelSize ==
    /\ pc = "kernel_size"
    /\ \E r \in TftpSizeResults(server_ip, BzImageFilename) :
        /\ Issue(Op("tftp_get_file_size", BzImageFilename, server_ip, r.ok,
                    IF r.ok THEN r.val ELSE 0))
        /\ faulted' = (faulted \/ (~r.ok /\ BzImageFilename \in DOMAIN TftpFiles(server_ip)))
        /\ IF r.ok
           THEN kfile_size' = r.val /\ Goto("initrd_size")
           ELSE UNCHANGED kfile_size /\ Panic("failed to query file size")
    /\ UNCHANGED <<env, config, secure_boot_enabled, fs_handles, server_ip,
                   ifile_size, kernel_data, initrd_data, klen, ilen,
                   cmdline, log, checks, handoff>>

\* Lines 132, 138-140: tftp_get_file_size(&server_ip, "./initrd").expect(..)
TftpGetInitrdSize ==
    /\ pc = "initrd_size"
    /\ \E r \in TftpSizeResults(server_ip, InitrdNetFilename) :
        /\ Issue(Op("tftp_get_file_size", InitrdNetFilename, server_ip, r.ok,
                    IF r.ok THEN r.val ELSE 0))
        /\ faulted' = (faulted \/ (~r.ok /\ InitrdNetFilename \in DOMAIN TftpFiles(server_ip)))
        /\ IF r.ok
           THEN ifile_size' = r.val /\ Goto("assert_sizes")
           ELSE UNCHANGED ifile_size /\ Panic("failed to query file size")
    /\ UNCHANGED <<env, config, secure_boot_enabled, fs_handles, server_ip,
                   kfile_size, kernel_data, initrd_data, klen, ilen,
                   cmdline, log, checks, handoff>>

\* A mutant of lines 142-148: the two size assertions are missing.
AllocateBuffers_NoAssert ==
    /\ pc = "assert_sizes"
    /\ kernel_data' = Zeros(kfile_size)
    /\ initrd_data' = Zeros(ifile_size)
    /\ Goto("read_kernel_net")
    /\ UNCHANGED <<env, config, secure_boot_enabled, fs_handles, server_ip,
                   kfile_size, ifile_size, klen, ilen,
                   cmdline, log, ops, checks, faulted, handoff>>

\* Lines 142-148: assert!(kfile_size > 0); assert!(ifile_size > 0); then both
\* buffers are allocated and resized, zero-filled, to the reported sizes.
AllocateBuffers ==
    /\ pc = "assert_sizes"
    /\ IF kfile_size <= 0
       THEN /\ Panic("assertion failed: kfile_size > 0")
            /\ UNCHANGED <<kernel_data, initrd_data>>
       ELSE IF ifile_size <= 0
            THEN /\ Panic("assertion failed: ifile_size > 0")
                 /\ UNCHANGED <<kernel_data, initrd_data>>
            ELSE /\ kernel_data' = Zeros(kfile_size)
                 /\ initrd_data' = Zeros(ifile_size)
                 /\ Goto("read_kernel_net")
    /\ UNCHANGED <<env, config, secure_boot_enabled, fs_handles, server_ip,
                   kfile_size, ifile_size, klen, ilen,
                   cmdline, log, ops, checks, faulted, handoff>>

\* A mutant of lines 149-151: the buffer is cut to the length received.
TftpReadKernel_Truncated ==
    /\ pc = "read_kernel_net"
    /\ \E r \in TftpReadResults(server_ip, BzImageFilename, kernel_data) :
        /\ Issue(Op("tftp_read_file", BzImageFilename, server_ip, r.ok,
                    IF r.ok THEN r.val.len ELSE 0))
        /\ faulted' = (faulted \/ ~r.ok)
        /\ IF r.ok
           THEN /\ klen' = r.val.len
                /\ kernel_data' = SubSeq(r.val.buffer, 1, r.val.len)
                /\ Goto("read_initrd_net")
           ELSE /\ UNCHANGED <<klen, kernel_data>>
                /\ Panic("failed to read file")
    /\ UNCHANGED <<env, config, secure_boot_enabled, fs_handles, server_ip,
                   kfile_size, ifile_size, initrd_data, ilen,
                   cmdline, log, checks, handoff>>

\* Lines 149-151: tftp_read_file(&server_ip, "./bzImage",
\* Some(&mut kernel_data)).expect(..)
TftpReadKernel ==
    /\ pc = "read_kernel_net"
    /\ \E r \in TftpReadResults(server_ip, BzImageFilename, kernel_data) :
        /\ Issue(Op("tftp_read_file", BzImageFilename, server_ip, r.ok,
                    IF r.ok THEN r.val.len ELSE 0))
        /\ faulted' = (faulted \/ ~r.ok)
        /\ IF r.ok
           THEN /\ klen' = r.val.len
                /\ kernel_data' = r.val.buffer
                /\ Goto("read_initrd_net")
           ELSE /\ UNCHANGED <<klen, kernel_data>>
                /\ Panic("failed to read file")
    /\ UNCHANGED <<env, config, secure_boot_enabled, fs_handles, server_ip,
                   kfile_size, ifile_size, initrd_data, ilen,
                   cmdline, log, checks, handoff>>

\* Lines 152-154: tftp_read_file(&server_ip, "./initrd",
\* Some(&mut initrd_data)).expect(..)
TftpReadInitrd ==
    /\ pc = "read_initrd_net"
    /\ \E r \in TftpReadResults(server_ip, InitrdNetFilename, initrd_data) :
        /\ Issue(Op("tftp_read_file", InitrdNetFilename, server_ip, r.ok,
                    IF r.ok THEN r.val.len ELSE 0))
        /\ faulted' = (faulted \/ ~r.ok)
        /\ IF r.ok
           THEN /\ ilen' = r.val.len
                /\ initrd_data' = r.val.buffer
                /\ Goto("assert_lens")
           ELSE /\ UNCHANGED <<ilen, initrd_data>>
                /\ Panic("failed to read file")
    /\ UNCHANGED <<env, config, secure_boot_enabled, fs_handles, server_ip,
                   kfile_size, ifile_size, kernel_data, klen,
                   cmdline, log, checks, handoff>>

\* A mutant of lines 156-159: the two length assertions are missing.
AssertLens_NoAssert ==
    /\ pc = "assert_lens"
    /\ fs_handles' = 0
    /\ Goto("get_cmdline")
    /\ UNCHANGED <<env, config, secure_boot_enabled, server_ip,
                   kfile_size, ifile_size, kernel_data, initrd_data, klen, ilen,
                   cmdline, log, ops, checks, faulted, handoff>>

\* Lines 156-157: assert!(klen > 0); assert!(ilen > 0); lines 158-159: the
\* block ends and the handles it opened are dropped.
AssertLens ==
    /\ pc = "assert_lens"
    /\ IF klen <= 0
       THEN Panic("assertion failed: klen > 0") /\ UNCHANGED fs_handles
       ELSE IF ilen <= 0
            THEN Panic("assertion failed: ilen > 0") /\ UNCHANGED fs_handles
            ELSE fs_handles' = 0 /\ Goto("get_cmdline")
    /\ UNCHANGED <<env, config, secure_boot_enabled, server_ip,
                   kfile_size, ifile_size, kernel_data, initrd_data, klen, ilen,
                   cmdline, log, ops, checks, faulted, handoff>>

\* A mutant of lines 161-165: the command line is not assembled before the
\* hash checks.
GetCmdline_Deferred ==
    /\ pc = "get_cmdline"
    /\ Goto("check_kernel")
    /\ UNCHANGED <<env, config, secure_boot_enabled, fs_handles, server_ip,
                   kfile_size, ifile_size, kernel_data, initrd_data, klen, ilen,
                   cmdline, log, ops, checks, faulted, handoff>>

\* Lines 161-165: let cmdline = get_cmdline(&config.cmdline, .., secure_boot_enabled)
GetCmdline ==
    /\ pc = "get_cmdline"
    /\ cmdline' = get_cmdline(config.cmdline, secure_boot_enabled)
    /\ Issue(Op("get_cmdline", <<>>, NoAddr, TRUE, 0))
    /\ Goto("check_kernel")
    /\ UNCHANGED <<env, config, secure_boot_enabled, fs_handles, server_ip,
                   kfile_size, ifile_size, kernel_data, initrd_data, klen, ilen,
                   log, checks, faulted, handoff>>

Checked(data, expected_hash, name, secure_boot, r) ==
    [data |-> data, expected_hash |-> expected_hash, name |-> name,
     secure_boot |-> secure_boot, ret |-> r.ret, logged |-> r.logged]

\* A mutant of lines 167-172: the `?` is missing, the result of the kernel
\* check is dropped.
CheckKernelHash_ResultDropped ==
    /\ pc = "check_kernel"
    /\ LET r == check_hash(kernel_data, config.kernel_hash, "Kernel",
                           secure_boot_enabled)
       IN  /\ log' = log \o r.logged
           /\ checks' = Append(checks, Checked(kernel_data, config.kernel_hash,
                                               "Kernel", secure_boot_enabled, r))
           /\ Issue(Op("check_hash_kernel", <<>>, NoAddr, r.ret = "SUCCESS", 0))
           /\ Goto("check_initrd")
    /\ UNCHANGED <<env, config, secure_boot_enabled, fs_handles, server_ip,
                   kfile_size, ifile_size, kernel_data, initrd_data, klen, ilen,
                   cmdline, faulted, handoff>>

\* Lines 167-172: check_hash(&kernel_data, config.kernel_hash, "Kernel",
\* secure_boot_enabled)?
CheckKernelHash ==
    /\ pc = "check_kernel"
    /\ LET r == check_hash(kernel_data, config.kernel_hash, "Kernel",
                           secure_boot_enabled)
       IN  /\ log' = log \o r.logged
           /\ checks' = Append(checks, Checked(kernel_data, config.kernel_hash,
                                               "Kernel", secure_boot_enabled, r))
           /\ Issue(Op("check_hash_kernel", <<>>, NoAddr, r.ret = "SUCCESS", 0))
           /\ IF r.ret = "SUCCESS" THEN Goto("check_initrd") ELSE Return(r.ret)
    /\ UNCHANGED <<env, config, secure_boot_enabled, fs_handles, server_ip,
                   kfile_size, ifile_size, kernel_data, initrd_data, klen, ilen,
                   cmdline, faulted, handoff>>

\* A mutant of lines 173-178: the initrd check reads the firmware's Secure
\* Boot state again instead of using secure_boot_enabled.
CheckInitrdHash_Requery ==
    /\ pc = "check_initrd"
    /\ LET r == check_hash(initrd_data, config.initrd_hash, "Initrd",
                           get_secure_boot_status(fw))
       IN  /\ log' = log \o r.logged
           /\ checks' = Append(checks, Checked(initrd_data, config.initrd_hash,
                                               "Initrd", get_secure_boot_status(fw), r))
           /\ Issue(Op("check_hash_initrd", <<>>, NoAddr, r.ret = "SUCCESS", 0))
           /\ IF r.ret = "SUCCESS" THEN Goto("boot") ELSE Return(r.ret)
    /\ UNCHANGED <<env, config, secure_boot_enabled, fs_handles, server_ip,
                   kfile_size, ifile_size, kernel_data, initrd_data, klen, ilen,
                   cmdline, faulted, handoff>>

\* Lines 173-178: check_hash(&initrd_data, config.initrd_hash, "Initrd",
\* secure_boot_enabled)?
CheckInitrdHash ==
    /\ pc = "check_initrd"
    /\ LET r == check_hash(initrd_data, config.initrd_hash, "Initrd",
                           secure_boot_enabled)
       IN  /\ log' = log \o r.logged
           /\ checks' = Append(checks, Checked(initrd_data, config.initrd_hash,
                                               "Initrd", secure_boot_enabled, r))
           /\ Issue(Op("check_hash_initrd", <<>>, NoAddr, r.ret = "SUCCESS", 0))
           /\ IF r.ret = "SUCCESS" THEN Goto("boot") ELSE Return(r.ret)
    /\ UNCHANGED <<env, config, secure_boot_enabled, fs_handles, server_ip,
                   kfile_size, ifile_size, kernel_data, initrd_data, klen, ilen,
                   cmdline, faulted, handoff>>

\* A mutant of line 180: the hand-off is also reached straight after the
\* command line is assembled, past both hash checks.
BootLinuxUnchecked_Unverified ==
    /\ pc \in {"check_kernel", "boot"}
    /\ handoff' = [kernel |-> kernel_data, cmdline |-> cmdline,
                   initrd |-> initrd_data, called |-> TRUE]
    /\ Issue(Op("boot_linux_unchecked", <<>>, NoAddr, TRUE, 0))
    /\ pc' = "done"
    /\ outcome' = "handoff"
    /\ UNCHANGED <<env, status, config, secure_boot_enabled, fs_handles, server_ip,
                   kfile_size, ifile_size, kernel_data, initrd_data, klen, ilen,
                   cmdline, log, checks, faulted>>

\* A mutant of line 180: the two buffers are passed in each other's place.
BootLinuxUnchecked_Swapped ==
    /\ pc = "boot"
    /\ handoff' = [kernel |-> initrd_data, cmdline |-> cmdline,
                   initrd |-> kernel_data, called |-> TRUE]
    /\ Issue(Op("boot_linux_unchecked", <<>>, NoAddr, TRUE, 0))
    /\ pc' = "done"
    /\ outcome' = "handoff"
    /\ UNCHANGED <<env, status, config, secure_boot_enabled, fs_handles, server_ip,
                   kfile_size, ifile_size, kernel_data, initrd_data, klen, ilen,
                   cmdline, log, checks, faulted>>

\* Line 180: boot_linux_unchecked(handle, system_table, kernel_data,
\* &cmdline, initrd_data): control passes to the kernel.
BootLinuxUnchecked ==
    /\ pc = "boot"
    /\ handoff' = [kernel |-> kernel_data, cmdline |-> cmdline,
                   initrd |-> initrd_data, called |-> TRUE]
    /\ Issue(Op("boot_linux_unchecked", <<>>, NoAddr, TRUE, 0))
    /\ pc' = "done"
    /\ outcome' = "handoff"
    /\ UNCHANGED <<env, status, config, secure_boot_enabled, fs_handles, server_ip,
                   kfile_size, ifile_size, kernel_data, initrd_data, klen, ilen,
                   cmdline, log, checks, faulted>>

Next ==
    \/ UefiServicesInit
    \/ ExtractConfiguration
    \/ GetSecureBootStatus
    \/ GetImageFileSystem
    \/ TestProtocol
    \/ LocalGetImageFileSystem
    \/ ReadKernel
    \/ ReadInitrd
    \/ OpenLoadedImage
    \/ OpenBaseCode
    \/ DhcpAck
    \/ TftpGetKernelSize
    \/ TftpGetInitrdSize
    \/ AllocateBuffers
    \/ TftpReadKernel
    \/ TftpReadInitrd
    \/ AssertLens
    \/ GetCmdline
    \/ CheckKernelHash
    \/ CheckInitrdHash
    \/ BootLinuxUnchecked

Spec == Init /\ [][Next]_vars

\* boot_linux is one thread that runs to its end: whatever step is enabled
\* is eventually taken.
FairSpec == Spec /\ WF_vars(Next)

(***************************************************************************)
(* The same attempt on a firmware whose Secure Boot state does not stay    *)
(* what it was when line 96 read it: after the query the state may become  *)
(* any other, at any step.  The stub holds the value of line 96 in the     *)
(* immutable local secure_boot_enabled.                                    *)
(***************************************************************************)
SecureBootStateChanges ==
    /\ pc \notin {"uefi_services_init", "config", "secure_boot", "done"}
    /\ \E sb \in SecureBootStates \ {fw.secure_boot} :
        fw' = [fw EXCEPT !.secure_boot = sb]
    /\ UNCHANGED <<image, disk, server, prog>>

\* Well-formed images, every Secure Boot state, one matching and one
\* mismatching content per file.
InitFirmwareChanges ==
    /\ Init
    /\ image \in ValidImages
    /\ \E w \in WorldsWith(SecureBootStates, ProbeData) :
        fw = w.fw /\ disk = w.disk /\ server = w.server

NextFirmwareChanges == Next \/ SecureBootStateChanges

SpecFirmwareChanges == InitFirmwareChanges /\ [][NextFirmwareChanges]_vars

(***************************************************************************)
(* Vocabulary of the properties.                                           *)
(***************************************************************************)
Terminal == pc = "done"

\* The operations issued so far that satisfy P.
Issued(P(_)) == {i \in DOMAIN ops : P(ops[i])}

IsNetworkOp(o) == o.op \in {"open_base_code", "tftp_get_file_size", "tftp_read_file"}
IsFileSystemOp(o) == o.op \in {"get_image_file_system", "fs_read"}
IsTransfer(o) == o.op = "tftp_read_file"
IsSizeQuery(o) == o.op = "tftp_get_file_size"
IsFileRead(o) == o.op = "fs_read"
IsHashCheck(o) == o.op \in {"check_hash_kernel", "check_hash_initrd"}
IsHandoff(o) == o.op = "boot_linux_unchecked"

\* Both artifacts are in memory: the acquisition block has been left.
Acquired == pc \in {"get_cmdline", "check_kernel", "check_initrd", "boot"}
            \/ (Terminal /\ outcome \in {"handoff", "error"})

KernelMatches == Sha256(kernel_data) = config.kernel_hash
InitrdMatches == Sha256(initrd_data) = config.initrd_hash

ImageComplete == DOMAIN image = SectionNames

(***************************************************************************)
(* C1.  When the Secure Boot status read is "enabled", control passes to   *)
(* the kernel only if the digest of the acquired kernel equals kernel_hash *)
(* and the digest of the acquired initrd equals initrd_hash; an attempt    *)
(* that acquired an artifact with another digest ends with                 *)
(* SECURITY_VIOLATION and without hand-off, on either acquisition path.    *)
(***************************************************************************)
C1_SecureBootHandoffOnlyIfVerified ==
    secure_boot_enabled =>
        /\ handoff.called =>
             /\ Sha256(handoff.kernel) = config.kernel_hash
             /\ Sha256(handoff.initrd) = config.initrd_hash
             /\ handoff.kernel = kernel_data
             /\ handoff.initrd = initrd_data
        /\ (Acquired /\ ~(KernelMatches /\ InitrdMatches)) =>
             /\ ~handoff.called
             /\ pc # "boot"
             /\ Terminal => outcome = "error" /\ status = "SECURITY_VIOLATION"

\* Secure Boot enabled, the kernel read from the network matches and the
\* initrd does not: the attempt has ended with SECURITY_VIOLATION.
C1_Witness ==
    /\ Terminal /\ secure_boot_enabled /\ ~fw.fs_on_device
    /\ Acquired /\ KernelMatches /\ ~InitrdMatches
    /\ outcome = "error" /\ status = "SECURITY_VIOLATION"

(***************************************************************************)
(* C2.  Every call of check_hash has one of three outcomes: the digest of  *)
(* the data equals the expected hash, then it returns Ok and logs nothing, *)
(* whatever secure_boot is; the digest differs and secure_boot is true,    *)
(* then it logs one error naming the artifact and returns                  *)
(* SECURITY_VIOLATION; the digest differs and secure_boot is false, then   *)
(* it logs one warning naming the artifact and returns Ok.                 *)
(***************************************************************************)
C2_CheckHashThreeOutcomes ==
    \A i \in DOMAIN checks :
        LET c == checks[i]
            equal == Sha256(c.data) = c.expected_hash
        IN  /\ equal => c.ret = "SUCCESS" /\ c.logged = <<>>
            /\ (~equal /\ c.secure_boot) =>
                 /\ c.ret = "SECURITY_VIOLATION"
                 /\ c.logged = <<LogLine("error", c.name)>>
            /\ (~equal /\ ~c.secure_boot) =>
                 /\ c.ret = "SUCCESS"
                 /\ c.logged = <<LogLine("warn", c.name)>>

\* Two calls in one attempt under Secure Boot: the kernel matched silently,
\* the initrd did not and was refused.
C2_Witness ==
    /\ Len(checks) = 2
    /\ checks[1].secure_boot /\ checks[1].ret = "SUCCESS" /\ checks[1].logged = <<>>
    /\ Sha256(checks[1].data) = checks[1].expected_hash
    /\ checks[2].ret = "SECURITY_VIOLATION"
    /\ checks[2].logged = <<LogLine("error", "Initrd")>>

(***************************************************************************)
(* C3.  When the Secure Boot status read is not "enabled", an attempt that *)
(* has acquired both artifacts always goes on to the hand-off, whatever    *)
(* the two digests are, and has then logged exactly one warning for each   *)
(* artifact whose digest differs from the embedded hash.                   *)
(***************************************************************************)
ExpectedWarnings ==
    (IF KernelMatches THEN <<>> ELSE <<LogLine("warn", "Kernel")>>)
    \o (IF InitrdMatches THEN <<>> ELSE <<LogLine("warn", "Initrd")>>)

C3_NoSecureBootMismatchStillBoots ==
    (~secure_boot_enabled /\ Acquired) =>
        /\ outcome \in {"running", "handoff"}
        /\ ~Terminal => ENABLED Next
        /\ Terminal => /\ outcome = "handoff"
                       /\ handoff.called
                       /\ log = ExpectedWarnings

\* Secure Boot off, both digests differ: handed off with two warnings.
C3_Witness ==
    /\ Terminal /\ ~secure_boot_enabled /\ outcome = "handoff"
    /\ ~KernelMatches /\ ~InitrdMatches
    /\ log = <<LogLine("warn", "Kernel"), LogLine("warn", "Initrd")>>

(***************************************************************************)
(* C4.  If one of the five sections is absent from the image, the attempt  *)
(* aborts in configuration extraction: no Secure Boot query, no file       *)
(* system or network operation and no hand-off is ever issued, whatever    *)
(* the Secure Boot state and whichever section is missing.                 *)
(***************************************************************************)
C4_MissingSectionAbortsFirst ==
    (SectionNames \ DOMAIN image # {}) =>
        /\ pc \in {"uefi_services_init", "config", "done"}
        /\ config = NoConfig
        /\ \A i \in DOMAIN ops : ops[i].op = "booted_image_file"
        /\ ~handoff.called
        /\ Terminal => outcome = "panic"

\* The command line section is missing, Secure Boot is enabled: the attempt
\* has panicked in extraction.
C4_Witness ==
    /\ DOMAIN image = SectionNames \ {".cmdline"}
    /\ fw.secure_boot = "enabled"
    /\ Terminal /\ outcome = "panic"
    /\ status = "Failed to extract configuration from binary"

(***************************************************************************)
(* C5.  Local Path and Network Path are mutually exclusive: an attempt on  *)
(* a volume that exposes a filesystem never issues a network operation,    *)
(* and an attempt on a volume that exposes none never issues a local       *)
(* filesystem operation.                                                   *)
(***************************************************************************)
C5_PathsMutuallyExclusive ==
    /\ fw.fs_on_device => Issued(IsNetworkOp) = {}
    /\ ~fw.fs_on_device => Issued(IsFileSystemOp) = {}

(***************************************************************************)
(* C6.  On a volume without the filesystem capability the stub takes the   *)
(* Network Path: with a well-formed image, a DHCP acknowledgment, both     *)
(* canonical files on the server with nonzero size and the embedded        *)
(* digests, and every firmware call and transfer succeeding in full, the   *)
(* attempt reaches the hand-off with the buffers read from the network.    *)
(***************************************************************************)
Embedded == EmbeddedConfigurationNew(image)

ServerServesMatching ==
    /\ Embedded.ok
    /\ {BzImageFilename, InitrdNetFilename} \subseteq DOMAIN server
    /\ Len(server[BzImageFilename]) > 0
    /\ Len(server[InitrdNetFilename]) > 0
    /\ Sha256(server[BzImageFilename]) = Embedded.val.kernel_hash
    /\ Sha256(server[InitrdNetFilename]) = Embedded.val.initrd_hash

TransfersComplete ==
    \A i \in Issued(IsTransfer) :
        ops[i].ok /\ ops[i].ret = Len(server[ops[i].name])

NetworkBootPremises ==
    /\ ~fw.fs_on_device
    /\ fw.mode.dhcp_ack_received
    /\ ServerServesMatching
    /\ ~faulted
    /\ TransfersComplete

ReachesHandoff ==
    /\ outcome \in {"running", "handoff"}
    /\ ~Terminal => ENABLED Next
    /\ Terminal => outcome = "handoff" /\ handoff.called

C6_NetworkBootReachesHandoff ==
    NetworkBootPremises =>
        /\ ReachesHandoff
        /\ Terminal => /\ handoff.kernel = server[BzImageFilename]
                       /\ handoff.initrd = server[InitrdNetFilename]

\* What holds of the code instead: the same, where get_image_file_system of
\* line 102 finds a file system although the tested handle has none.
NetworkBootWhereFileSystemLocatable ==
    (NetworkBootPremises /\ fw.fs_locatable) =>
        /\ ReachesHandoff
        /\ Terminal => /\ handoff.kernel = server[BzImageFilename]
                       /\ handoff.initrd = server[InitrdNetFilename]

(***************************************************************************)
(* C7.  With a well-formed image, a filesystem on the boot volume and both *)
(* files named by kernel_filename and initrd_filename present with the     *)
(* embedded digests, the attempt reaches the hand-off, with Secure Boot    *)
(* enabled or not, and the filesystem protocol is opened exclusively: it   *)
(* is never held open twice.                                               *)
(***************************************************************************)
DiskHoldsMatching ==
    /\ Embedded.ok
    /\ {Embedded.val.kernel_filename, Embedded.val.initrd_filename} \subseteq DOMAIN disk
    /\ Sha256(disk[Embedded.val.kernel_filename]) = Embedded.val.kernel_hash
    /\ Sha256(disk[Embedded.val.initrd_filename]) = Embedded.val.initrd_hash

C7_LocalBootReachesHandoff ==
    (fw.fs_on_device /\ DiskHoldsMatching /\ ~faulted) =>
        /\ ReachesHandoff
        /\ fs_handles <= 1

\* The two halves of C7, each refuted by one answer of the firmware to the
\* second exclusive open.
LocalBootNeverPanics ==
    (fw.fs_on_device /\ DiskHoldsMatching /\ ~faulted) => ReachesHandoff
FileSystemOpenedOnce == fs_handles <= 1

(***************************************************************************)
(* C8.  On the Network Path, once a file-size query has reported 0 for the *)
(* kernel or for the initrd, no transfer is ever issued for that artifact  *)
(* and the attempt ends in a panic, never in the hand-off.                 *)
(***************************************************************************)
IsZeroSize(o) == IsSizeQuery(o) /\ o.ok /\ o.ret = 0

C8_ZeroSizeAbortsBeforeTransfer ==
    \A i \in Issued(IsZeroSize) :
        /\ \A j \in Issued(IsTransfer) : ops[j].name # ops[i].name
        /\ ~handoff.called
        /\ outcome \in {"running", "panic"}
        /\ ~Terminal => ENABLED Next
        /\ Terminal => outcome = "panic"

\* The kernel's size was nonzero, the initrd's zero: panicked on the second
\* assertion with no transfer issued.
C8_Witness ==
    /\ Terminal /\ outcome = "panic"
    /\ status = "assertion failed: ifile_size > 0"
    /\ kfile_size > 0
    /\ \E i \in Issued(IsZeroSize) : ops[i].name = InitrdNetFilename
    /\ Issued(IsTransfer) = {}

(***************************************************************************)
(* C9.  The stages of an attempt occur in one order, each at most once:    *)
(* configuration extraction, Secure Boot query, acquisition, hash          *)
(* verification, hand-off.  No stage starts before the one before it has   *)
(* completed, and none is entered again.                                   *)
(***************************************************************************)
StageOf(o) ==
    CASE o.op = "booted_image_file" -> 1
      [] o.op = "get_secure_boot_status" -> 2
      [] o.op \in {"get_image_file_system", "test_protocol", "fs_read",
                   "open_loaded_image", "open_base_code",
                   "tftp_get_file_size", "tftp_read_file"} -> 3
      [] IsHashCheck(o) -> 4
      [] IsHandoff(o) -> 5
      [] OTHER -> 0

\* The stages entered, in order: one entry each time an operation of
\* another stage than the last one is issued.
RECURSIVE StagesEntered(_)
StagesEntered(s) ==
    IF s = <<>> THEN <<>>
    ELSE LET before == StagesEntered(SubSeq(s, 1, Len(s) - 1))
             k == StageOf(s[Len(s)])
         IN  IF k = 0 \/ (before # <<>> /\ before[Len(before)] = k)
             THEN before
             ELSE Append(before, k)

StageCompleted(k) ==
    CASE k = 1 -> config # NoConfig
      [] k = 2 -> \E i \in DOMAIN ops : ops[i].op = "get_secure_boot_status"
      [] k = 3 -> Acquired
      [] k = 4 -> /\ Len(checks) = 2
                  /\ \A i \in DOMAIN checks : checks[i].ret = "SUCCESS"
      [] OTHER -> TRUE

TimesIssued(kind) == Cardinality({i \in DOMAIN ops : ops[i].op = kind})

C9_StagesInOrder ==
    LET entered == StagesEntered(ops)
    IN  /\ entered = [k \in 1..Len(entered) |-> k]
        /\ Len(entered) <= 5
        /\ \A k \in 2..Len(entered) : StageCompleted(k - 1)
        /\ \A kind \in {"booted_image_file", "get_secure_boot_status",
                        "check_hash_kernel", "check_hash_initrd",
                        "boot_linux_unchecked"} : TimesIssued(kind) <= 1

\* An attempt that went through all five stages.
C9_Witness ==
    /\ Terminal /\ outcome = "handoff"
    /\ StagesEntered(ops) = <<1, 2, 3, 4, 5>>

(***************************************************************************)
(* C10.  Every acquisition error is fatal, with no retry and no fallback:  *)
(* after a failed local read, a failed size query, a failed transfer or a  *)
(* transfer of length zero the attempt never verifies a hash and never     *)
(* hands off, and ends in a panic; each read, size query and transfer is   *)
(* issued at most once per artifact; after a failure on one path no        *)
(* operation of the other path is issued.                                  *)
(***************************************************************************)
IsAcquisitionFailure(o) ==
    \/ IsFileRead(o) /\ ~o.ok
    \/ IsSizeQuery(o) /\ ~o.ok
    \/ IsTransfer(o) /\ (~o.ok \/ o.ret = 0)

C10_AcquisitionErrorsFatal ==
    /\ Issued(IsAcquisitionFailure) # {} =>
         /\ Issued(IsHashCheck) = {}
         /\ ~Acquired
         /\ ~handoff.called
         /\ outcome \in {"running", "panic"}
         /\ ~Terminal => ENABLED Next
         /\ Terminal => outcome = "panic"
    /\ \A kind \in {"fs_read", "tftp_get_file_size", "tftp_read_file"} :
         LET issued == {i \in DOMAIN ops : ops[i].op = kind}
         IN  Cardinality(issued) = Cardinality({ops[i].name : i \in issued})
    /\ \A i \in Issued(IsAcquisitionFailure) : \A j \in DOMAIN ops :
         j > i => /\ IsFileRead(ops[i]) => ~IsNetworkOp(ops[j])
                  /\ ~IsFileRead(ops[i]) => ~IsFileSystemOp(ops[j])

\* The kernel transfer returned length zero: the attempt panicked on the
\* assertion, nothing was verified.
C10_Witness ==
    /\ Terminal /\ outcome = "panic" /\ status = "assertion failed: klen > 0"
    /\ \E i \in Issued(IsTransfer) : ops[i].ok /\ ops[i].ret = 0
    /\ checks = <<>>

(***************************************************************************)
(* C11.  A Secure Boot state that cannot be read is never fatal: the query *)
(* itself ends no attempt, the attempt goes on with Secure Boot treated as *)
(* not enabled, every hash check of it returns Ok and logs at most a       *)
(* warning, and once both artifacts are acquired it reaches the hand-off.  *)
(***************************************************************************)
IsSecureBootQuery(o) == o.op = "get_secure_boot_status"

C11_QueryFailureNotFatal ==
    (fw.secure_boot = "unreadable" /\ Issued(IsSecureBootQuery) # {}) =>
        /\ ~secure_boot_enabled
        /\ \A i \in Issued(IsSecureBootQuery) : ~ops[i].ok
        /\ IsSecureBootQuery(ops[Len(ops)]) => pc = "get_fs" /\ outcome = "running"
        /\ \A i \in DOMAIN checks :
             /\ ~checks[i].secure_boot
             /\ checks[i].ret = "SUCCESS"
        /\ \A i \in DOMAIN log : log[i].level = "warn"
        /\ Acquired =>
             /\ outcome \in {"running", "handoff"}
             /\ ~Terminal => ENABLED Next
             /\ Terminal => outcome = "handoff" /\ handoff.called

\* The state could not be read, the kernel's digest differs: one warning
\* naming the kernel was logged and the attempt handed off.
C11_Witness ==
    /\ fw.secure_boot = "unreadable"
    /\ \E i \in Issued(IsSecureBootQuery) : ~ops[i].ok
    /\ Terminal /\ outcome = "handoff" /\ handoff.called
    /\ ~KernelMatches
    /\ LogLine("warn", "Kernel") \in {log[i] : i \in DOMAIN log}

(***************************************************************************)
(* C12.  extract_hash succeeds exactly when the named section exists and   *)
(* is 32 bytes long, and then returns the section's bytes unchanged; a     *)
(* missing section and a section of any other length (shorter, longer,     *)
(* empty) give INVALID_PARAMETER, EmbeddedConfiguration::new then fails as *)
(* a whole with that status, and the attempt never holds a configuration.  *)
(***************************************************************************)
C12_ExtractHashExactly32 ==
    \A s \in HashSections :
        LET r == extract_hash(image, s)
            wellFormed == s \in DOMAIN image /\ Len(image[s]) = 32
        IN  /\ r.ok <=> wellFormed
            /\ r.ok => r.val = image[s] /\ Len(r.val) = 32
            /\ ~r.ok =>
                 /\ r.status = "INVALID_PARAMETER"
                 /\ ~EmbeddedConfigurationNew(image).ok
                 /\ EmbeddedConfigurationNew(image).status = "INVALID_PARAMETER"
                 /\ EmbeddedConfigurationNew(image).val = <<>>
                 /\ config = NoConfig
                 /\ pc \in {"uefi_services_init", "config", "done"}
                 /\ Terminal => outcome = "panic"

\* The initrd hash section is one byte too long (the kernel's is well
\* formed): extraction has run and failed, no configuration was built.
C12_Witness ==
    /\ DOMAIN image = SectionNames
    /\ Len(image[".kernelh"]) = 32
    /\ extract_hash(image, ".kernelh").ok
    /\ Len(image[".initrdh"]) = 33
    /\ \E i \in DOMAIN ops : ops[i].op = "booted_image_file" /\ ops[i].ok
    /\ Terminal /\ outcome = "panic"
    /\ status = "Failed to extract configuration from binary"
    /\ config = NoConfig

(***************************************************************************)
(* C13.  The command line is assembled only after the hash checks of both  *)
(* the kernel and the initrd have passed: get_cmdline is never called      *)
(* before both checks returned Ok, and an attempt that ends with           *)
(* SECURITY_VIOLATION has never called it.                                 *)
(***************************************************************************)
IsCmdlineAssembly(o) == o.op = "get_cmdline"

C13_CmdlineAfterVerification ==
    /\ \A i \in Issued(IsCmdlineAssembly) :
         /\ \E j \in 1..(i - 1) : ops[j].op = "check_hash_kernel" /\ ops[j].ok
         /\ \E j \in 1..(i - 1) : ops[j].op = "check_hash_initrd" /\ ops[j].ok
    /\ (Terminal /\ outcome = "error" /\ status = "SECURITY_VIOLATION") =>
         Issued(IsCmdlineAssembly) = {}

\* What holds of the code instead: the command line is assembled once, when
\* both artifacts are in memory and before either hash check; every hash
\* check comes after it, so an attempt refused with SECURITY_VIOLATION has
\* assembled a command line, which is then handed to no kernel.
C13_CmdlineBeforeVerification ==
    /\ TimesIssued("get_cmdline") <= 1
    /\ \A i \in Issued(IsCmdlineAssembly) :
         /\ Acquired
         /\ \A j \in 1..(i - 1) : ~IsHashCheck(ops[j])
         /\ cmdline = get_cmdline(config.cmdline, secure_boot_enabled)
    /\ Issued(IsHashCheck) # {} => Issued(IsCmdlineAssembly) # {}
    /\ (Terminal /\ outcome = "error" /\ status = "SECURITY_VIOLATION") =>
         /\ Issued(IsCmdlineAssembly) # {}
         /\ ~handoff.called
    /\ handoff.called => handoff.cmdline = cmdline

\* Secure Boot enabled and the kernel's digest differs: the attempt was
\* refused after it had assembled the command line.
C13_Witness ==
    /\ Terminal /\ outcome = "error" /\ status = "SECURITY_VIOLATION"
    /\ secure_boot_enabled /\ ~KernelMatches
    /\ Issued(IsCmdlineAssembly) # {}
    /\ cmdline = config.cmdline /\ cmdline # <<>>

(***************************************************************************)
(* C14.  The Secure Boot state is queried at most once per attempt, and    *)
(* exactly once by an attempt that got past configuration extraction,      *)
(* before any acquisition step; the value that query returned is the one   *)
(* used by the kernel hash check, by the initrd hash check and by the      *)
(* command-line assembly, so the two hash checks apply the same policy     *)
(* even when the firmware's state changes after the query.                 *)
(***************************************************************************)
C14_SecureBootQueriedOnce ==
    /\ TimesIssued("get_secure_boot_status") <= 1
    /\ pc \notin {"uefi_services_init", "config", "secure_boot", "done"} =>
         TimesIssued("get_secure_boot_status") = 1
    /\ \A i \in DOMAIN ops :
         StageOf(ops[i]) = 3 => \E j \in 1..(i - 1) : IsSecureBootQuery(ops[j])
    /\ \A i \in Issued(IsSecureBootQuery) :
         /\ secure_boot_enabled = (ops[i].ret = 1)
         /\ \A k \in DOMAIN checks : checks[k].secure_boot = (ops[i].ret = 1)
         /\ Issued(IsCmdlineAssembly) # {} =>
              cmdline = get_cmdline(config.cmdline, ops[i].ret = 1)
    /\ Len(checks) = 2 =>
         /\ checks[1].name = "Kernel" /\ checks[2].name = "Initrd"
         /\ checks[1].secure_boot = checks[2].secure_boot

\* The query returned "enabled", the firmware's state then became
\* "disabled": both checks still ran as under Secure Boot and the
\* mismatching initrd was refused.
C14_Witness ==
    /\ \E i \in Issued(IsSecureBootQuery) : ops[i].ret = 1
    /\ fw.secure_boot = "disabled"
    /\ Len(checks) = 2
    /\ checks[1].secure_boot /\ checks[2].secure_boot
    /\ checks[2].ret = "SECURITY_VIOLATION"
    /\ cmdline = config.cmdline

(***************************************************************************)
(* C15.  No file-size query and no transfer is issued unless a DHCP        *)
(* acknowledgment has been received: without one, an attempt that reached  *)
(* the Network Path panics on the assertion before any TFTP request; with  *)
(* one, every TFTP request of the attempt is addressed to the boot-server  *)
(* address of that acknowledgment.                                         *)
(***************************************************************************)
IsTftpRequest(o) == IsSizeQuery(o) \/ IsTransfer(o)

OnNetworkPath == \E i \in DOMAIN ops : ops[i].op = "open_base_code" /\ ops[i].ok

C15_NoTftpWithoutDhcpAck ==
    /\ ~fw.mode.dhcp_ack_received =>
         /\ Issued(IsTftpRequest) = {}
         /\ OnNetworkPath =>
              /\ pc \in {"dhcp_ack", "done"}
              /\ Terminal => /\ outcome = "panic"
                             /\ status = "assertion failed: dhcp_ack_received"
    /\ fw.mode.dhcp_ack_received =>
         \A i \in Issued(IsTftpRequest) :
             /\ ops[i].addr = fw.mode.bootp_si_addr
             /\ ops[i].addr = server_ip
             /\ ops[i].addr # NoAddr

\* No acknowledgment was received: the attempt opened BaseCode and panicked
\* on the assertion, with no TFTP request issued.
C15_Witness ==
    /\ ~fw.mode.dhcp_ack_received
    /\ OnNetworkPath
    /\ Terminal /\ outcome = "panic"
    /\ status = "assertion failed: dhcp_ack_received"
    /\ Issued(IsTftpRequest) = {}

\* With an acknowledgment of the second server address, all four requests
\* went to that address.
RequestsFollowAck ==
    /\ fw.mode.bootp_si_addr = ServerAddr2
    /\ Cardinality(Issued(IsTftpRequest)) = 4
    /\ \A i \in Issued(IsTftpRequest) : ops[i].addr = ServerAddr2

(***************************************************************************)
(* C16.  On the Network Path the requests are the two size queries and the *)
(* two transfers for the fixed names "./bzImage" and "./initrd", in that   *)
(* order, whatever the embedded kernel_filename and initrd_filename are,   *)
(* and the attempt stops short of the fourth request only for an answer of *)
(* the firmware (so attempts that differ only in those two fields issue    *)
(* the same requests); none names an embedded filename; the bytes fetched  *)
(* are still checked against the embedded kernel_hash and initrd_hash.     *)
(***************************************************************************)
Request(kind, name) == [op |-> kind, name |-> name]

\* The requests of the Network Path, which do not read the configuration.
FixedRequests ==
    <<Request("tftp_get_file_size", BzImageFilename),
      Request("tftp_get_file_size", InitrdNetFilename),
      Request("tftp_read_file", BzImageFilename),
      Request("tftp_read_file", InitrdNetFilename)>>

C16_FixedNetworkFilenames ==
    LET reqs == SelectSeq(ops, IsTftpRequest)
    IN  /\ Len(reqs) <= Len(FixedRequests)
        /\ \A i \in DOMAIN reqs :
             /\ Request(reqs[i].op, reqs[i].name) = FixedRequests[i]
             /\ reqs[i].name \notin {config.kernel_filename, config.initrd_filename}
             /\ reqs[i].name \notin {image[".kernelp"], image[".initrdp"]}
        /\ (OnNetworkPath /\ Terminal /\ Len(reqs) < Len(FixedRequests)) =>
             /\ outcome = "panic"
             /\ Len(reqs) = 0 => ~fw.mode.dhcp_ack_received
             /\ Len(reqs) \in {1, 3} => ~reqs[Len(reqs)].ok
             /\ Len(reqs) = 2 =>
                  ~reqs[2].ok \/ reqs[1].ret = 0 \/ reqs[2].ret = 0
        /\ (OnNetworkPath /\ ~Terminal /\ Len(reqs) < Len(FixedRequests)) =>
             \A i \in DOMAIN reqs : reqs[i].ok
        /\ (OnNetworkPath /\ Len(checks) >= 1) =>
             /\ checks[1].name = "Kernel"
             /\ checks[1].data = kernel_data
             /\ checks[1].expected_hash = image[".kernelh"]
        /\ (OnNetworkPath /\ Len(checks) = 2) =>
             /\ checks[2].name = "Initrd"
             /\ checks[2].data = initrd_data
             /\ checks[2].expected_hash = image[".initrdh"]

\* An image naming the second kernel file: its attempt issued the four fixed
\* requests and both hash checks ran on what was fetched.
C16_Witness ==
    /\ DOMAIN image = SectionNames
    /\ image[".kernelp"] = KernelName2
    /\ OnNetworkPath
    /\ Len(SelectSeq(ops, IsTftpRequest)) = 4
    /\ Len(checks) = 2
    /\ Terminal /\ outcome = "handoff"

(***************************************************************************)
(* C17.  The buffers passed to the hand-off are the buffers check_hash     *)
(* hashed: the kernel passed is the data of the "Kernel" check and the     *)
(* initrd passed is the data of the "Initrd" check, never the reverse;     *)
(* once both artifacts are acquired no step changes a byte of either       *)
(* buffer, and no read, size query or transfer is issued any more.         *)
(***************************************************************************)
IsAcquisitionOp(o) == StageOf(o) = 3

BuffersHashedAreHandedOff ==
    /\ handoff.called =>
         /\ Len(checks) = 2
         /\ checks[1].name = "Kernel" /\ handoff.kernel = checks[1].data
         /\ checks[2].name = "Initrd" /\ handoff.initrd = checks[2].data
         /\ handoff.kernel = kernel_data /\ handoff.initrd = initrd_data
    /\ \A k \in DOMAIN checks :
         checks[k].data = IF checks[k].name = "Kernel" THEN kernel_data
                          ELSE initrd_data
    /\ (Acquired /\ fw.fs_on_device) =>
         /\ kernel_data = disk[config.kernel_filename]
         /\ initrd_data = disk[config.initrd_filename]

BuffersUntouchedOnceAcquired ==
    Acquired =>
        /\ kernel_data' = kernel_data
        /\ initrd_data' = initrd_data
        /\ \A i \in DOMAIN ops' : IsAcquisitionOp(ops'[i]) => i \in DOMAIN ops

C17_HandoffBuffersAreHashed ==
    []BuffersHashedAreHandedOff /\ [][BuffersUntouchedOnceAcquired]_vars

\* A hand-off of a kernel and an initrd that differ from each other, each
\* the data of its own hash check.
C17_Witness ==
    /\ handoff.called /\ Len(checks) = 2
    /\ handoff.kernel # handoff.initrd
    /\ handoff.kernel = checks[1].data
    /\ handoff.initrd = checks[2].data

(***************************************************************************)
(* C18.  The kernel is verified before the initrd.  With Secure Boot       *)
(* enabled a kernel mismatch ends the attempt at once: the initrd check is *)
(* never run and exactly one error, naming the kernel, is logged.  With    *)
(* Secure Boot not enabled the initrd check always follows the kernel      *)
(* check, and at most two warnings are logged.                             *)
(***************************************************************************)
C18_KernelVerifiedFirst ==
    /\ Len(checks) <= 2
    /\ Len(checks) >= 1 => checks[1].name = "Kernel"
    /\ Len(checks) = 2 => checks[2].name = "Initrd"
    /\ \A i \in DOMAIN ops : ops[i].op = "check_hash_initrd" =>
         \E j \in 1..(i - 1) : ops[j].op = "check_hash_kernel"
    /\ (secure_boot_enabled /\ Len(checks) >= 1
        /\ Sha256(checks[1].data) # checks[1].expected_hash) =>
         /\ Len(checks) = 1
         /\ TimesIssued("check_hash_initrd") = 0
         /\ log = <<LogLine("error", "Kernel")>>
         /\ Terminal /\ outcome = "error" /\ status = "SECURITY_VIOLATION"
         /\ ~handoff.called
    /\ (~secure_boot_enabled /\ Len(checks) >= 1) =>
         /\ Len(checks) = 1 => pc = "check_initrd" /\ ENABLED CheckInitrdHash
         /\ Len(log) <= 2
         /\ \A i \in DOMAIN log : log[i].level = "warn"
         /\ Terminal => Len(checks) = 2

\* Secure Boot enabled and neither artifact matches: only the kernel was
\* checked, one error was logged.
C18_Witness ==
    /\ secure_boot_enabled
    /\ Acquired /\ ~KernelMatches /\ ~InitrdMatches
    /\ Terminal /\ outcome = "error"
    /\ Len(checks) = 1
    /\ log = <<LogLine("error", "Kernel")>>

(***************************************************************************)
(* C19.  On the Network Path the bytes hashed and handed off for each      *)
(* artifact have the length its file-size query reported, whatever length  *)
(* the transfer returned: a transfer of n bytes with 0 < n < reported size *)
(* is accepted, and the buffer verified is the n bytes received followed   *)
(* by zero bytes up to the reported size.                                  *)
(***************************************************************************)
\* The buffer after a transfer of n bytes of file into size zero bytes.
Padded(file, n, size) == SubSeq(file, 1, n) \o Zeros(size - n)

SizeReported(name) ==
    {ops[i].ret : i \in {j \in Issued(IsSizeQuery) : ops[j].name = name /\ ops[j].ok}}

LengthReceived(name) ==
    {ops[i].ret : i \in {j \in Issued(IsTransfer) : ops[j].name = name /\ ops[j].ok}}

C19_BufferLengthIsReportedSize ==
    (OnNetworkPath /\ Acquired) =>
        /\ SizeReported(BzImageFilename) = {kfile_size}
        /\ SizeReported(InitrdNetFilename) = {ifile_size}
        /\ LengthReceived(BzImageFilename) = {klen}
        /\ LengthReceived(InitrdNetFilename) = {ilen}
        /\ 0 < klen /\ klen <= kfile_size
        /\ 0 < ilen /\ ilen <= ifile_size
        /\ Len(kernel_data) = kfile_size
        /\ Len(initrd_data) = ifile_size
        /\ kernel_data = Padded(server[BzImageFilename], klen, kfile_size)
        /\ initrd_data = Padded(server[InitrdNetFilename], ilen, ifile_size)
        /\ \A k \in DOMAIN checks :
             Len(checks[k].data) = IF checks[k].name = "Kernel" THEN kfile_size
                                   ELSE ifile_size
        /\ handoff.called =>
             /\ Len(handoff.kernel) = kfile_size
             /\ Len(handoff.initrd) = ifile_size

\* The kernel transfer returned one byte of a two-byte file whose second
\* byte is not zero: the buffer, padded with a zero, was hashed and handed
\* off.
C19_Witness ==
    /\ OnNetworkPath /\ handoff.called
    /\ kfile_size = 2 /\ klen = 1
    /\ server[BzImageFilename][2] # 0
    /\ Len(checks) = 2
    /\ checks[1].data = <<server[BzImageFilename][1], 0>>
    /\ handoff.kernel = checks[1].data

(***************************************************************************)
(* C20.  Every attempt is one linear pass that terminates: provided every  *)
(* firmware call returns, the attempt eventually ends, in exactly one of   *)
(* three final states (hand-off to the kernel, a panic, a return of        *)
(* SECURITY_VIOLATION), and every step moves to a later statement of       *)
(* boot_linux: none is repeated or gone back to.                           *)
(***************************************************************************)
\* The statements of boot_linux in the order of the source.
Statements ==
    <<"uefi_services_init", "config", "secure_boot", "get_fs", "test_protocol",
      "local_get_fs", "read_kernel", "read_initrd",
      "open_loaded_image", "open_base_code", "dhcp_ack", "kernel_size",
      "initrd_size", "assert_sizes", "read_kernel_net", "read_initrd_net",
      "assert_lens", "get_cmdline", "check_kernel", "check_initrd", "boot",
      "done">>

Position(label) == CHOOSE i \in DOMAIN Statements : Statements[i] = label

OneFinalState ==
    /\ pc \in {Statements[i] : i \in DOMAIN Statements}
    /\ ~Terminal => outcome = "running" /\ ~handoff.called
    /\ Terminal =>
         /\ outcome \in {"handoff", "panic", "error"}
         /\ outcome = "handoff" <=> handoff.called
         /\ outcome = "error" <=> status = "SECURITY_VIOLATION"
         /\ outcome = "panic" => ~handoff.called /\ status # "SUCCESS"
         /\ ~ENABLED Next

StepAdvances == Position(pc') > Position(pc)

C20_LinearPassTerminates ==
    /\ <>Terminal
    /\ []OneFinalState
    /\ [][StepAdvances]_vars

\* The longest pass: the Network Path through all four requests and both
\* hash checks to the hand-off, fourteen calls in all.
C20_Witness ==
    /\ Terminal /\ outcome = "handoff"
    /\ OnNetworkPath
    /\ Len(ops) = 14
    /\ Position(pc) = Len(Statements)

====
